---------------------------- MODULE Spec2Model ----------------------------
(***************************************************************************)
(* Model of the sibling endpoint resolver (src/src/lib.rs) and of the      *)
(* store seeder (src/src/main.rs).                                         *)
(*                                                                         *)
(* Text (sibling names, store keys, addresses, environment values, region  *)
(* arguments) is a sequence of one-character strings, so that formatting,  *)
(* case folding and separator replacement are computed character by        *)
(* character.  Option<T> is the empty sequence (None) or a one-element     *)
(* sequence (Some).  Result<T> is <<"Ok", v>> or <<"Err">>.                *)
(***************************************************************************)
EXTENDS Naturals, Sequences, FiniteSets, TLC

VARIABLES
    xenv,       \* the process environment's X_ENV: None or Some(text)
    env,        \* Siblings.env
    me,         \* Siblings.me
    endpoints,  \* the value behind Siblings.endpoints (Arc<RwLock<Endpoints>>)
    lock,       \* the RwLock itself: the callers holding a read guard, the one holding the write guard
    store,      \* the backing store (redis): key -> bytes
    pc,         \* each caller's position in the call it is making
    call,       \* each caller's current (or last) call: arguments, locals, result
    populated,  \* history: the targets a call has fetched and populated since the last flush
    missed,     \* history: the targets whose last finished slow path was a total miss
    flushed,    \* history: "fresh" or "clean" after flush() until a populate, else "no"
    calls,      \* history: number of accessor calls started
    flushes     \* history: number of flush() calls started

vars == <<xenv, env, me, endpoints, lock, store, pc, call, populated, missed, flushed, calls, flushes>>

-----------------------------------------------------------------------------
(* Bounds of the model. *)

NumProcs == 2
MaxCalls == 2
MaxFlushes == 1

Procs == 1 .. NumProcs

-----------------------------------------------------------------------------
(* Option and Result. *)

None == << >>
Some(x) == <<x>>
Ok(x) == <<"Ok", x>>
Err == <<"Err">>
IsOk(r) == r[1] = "Ok"

-----------------------------------------------------------------------------
(* Text. *)

Upper == <<"A","B","C","D","E","F","G","H","I","J","K","L","M",
           "N","O","P","Q","R","S","T","U","V","W","X","Y","Z">>
Lower == <<"a","b","c","d","e","f","g","h","i","j","k","l","m",
           "n","o","p","q","r","s","t","u","v","w","x","y","z">>

LowerChar(c) ==
    IF \E i \in 1 .. 26 : Upper[i] = c
    THEN Lower[CHOOSE i \in 1 .. 26 : Upper[i] = c]
    ELSE c

\* str::to_lowercase
ToLowercase(s) == [i \in 1 .. Len(s) |-> LowerChar(s[i])]

\* key.split('_').collect::<Vec<_>>().join("-")
RECURSIVE SplitJoin(_)
SplitJoin(s) ==
    IF s = << >> THEN << >>
    ELSE (IF Head(s) = "_" THEN <<"-">> ELSE <<Head(s)>>) \o SplitJoin(Tail(s))

T_dev == <<"d","e","v">>
T_prod == <<"p","r","o","d">>
T_ep == <<"e","p","-">>
T_devdash == <<"d","e","v","-">>
T_localhost == <<"h","t","t","p",":","/","/","l","o","c","a","l","h","o","s","t",":">>

N_august == <<"a","u","g","u","s","t">>
N_bank_statement == <<"b","a","n","k","-","s","t","a","t","e","m","e","n","t">>
N_k9 == <<"k","9">>
N_matrix == <<"m","a","t","r","i","x">>
N_pandora == <<"p","a","n","d","o","r","a">>
N_retina == <<"r","e","t","i","n","a">>
N_schematron == <<"s","c","h","e","m","a","t","r","o","n">>
N_sentry == <<"s","e","n","t","r","y">>
N_thumbnailer == <<"t","h","u","m","b","n","a","i","l","e","r">>
N_xchange == <<"x","c","h","a","n","g","e">>
N_credit == <<"c","r","e","d","i","t">>

-----------------------------------------------------------------------------
(* Regions, Env, RegionEndpoint. *)

\* impl From<&str> for Regions: Ok(region), or Err for the panic
RegionsFrom(value) ==
    CASE value = <<"I","N">> \/ value = <<"I","N","D">> -> Ok("IN")
      [] value = <<"U","S">> \/ value = <<"U","S","A">> -> Ok("US")
      [] OTHER -> Err

\* Env::new_from_env: Ok(env), or Err for the panic
EnvNewFromEnv(x) ==
    IF x = None THEN Ok("Dev")
    ELSE LET e == ToLowercase(x[1]) IN
         IF e = T_prod THEN Ok("Prod")
         ELSE IF e = T_dev THEN Ok("Dev")
         ELSE Err

\* a get without the fall back to default when a region is asked for
RegionEndpointGetNoFallback(ep, region) ==
    IF region # None /\ region[1] = "US" THEN ep.usa
    ELSE IF region # None /\ region[1] = "IN" THEN ep.ind
    ELSE Some(ep.default)

\* RegionEndpoint::get
RegionEndpointGet(ep, region) ==
    IF region # None /\ region[1] = "US" /\ ep.usa # None THEN ep.usa
    ELSE IF region # None /\ region[1] = "IN" /\ ep.ind # None THEN ep.ind
    ELSE Some(ep.default)

\* Endpoints::default()
EndpointsDefault ==
    [august |-> None, bankstatement |-> None, k9 |-> None, matrix |-> None,
     pandora |-> None, retina |-> None, schematron |-> None, sentry |-> None,
     siblings |-> << >>, thumbnailer |-> None, xchange |-> None]

\* HashMap::insert
MapInsert(m, k, v) == [x \in DOMAIN m \cup {k} |-> IF x = k THEN v ELSE m[x]]

-----------------------------------------------------------------------------
(* The well-known accessors: the slot each reads on its fast path, the key *)
(* it fetches, the slot it writes on populate.                             *)

WellKnown ==
    {"august", "k9", "retina", "bankstatement", "matrix", "pandora",
     "schematron", "sentry", "thumbnailer", "xchange"}

\* the field of Endpoints read by `if let Some(..) = &self.endpoints.read().await.<field>`
ReadSlot(a) ==
    CASE a = "august" -> "august"
      [] a = "k9" -> "k9"
      [] a = "retina" -> "k9"
      [] a = "bankstatement" -> "bankstatement"
      [] a = "matrix" -> "matrix"
      [] a = "pandora" -> "pandora"
      [] a = "schematron" -> "schematron"
      [] a = "sentry" -> "sentry"
      [] a = "thumbnailer" -> "thumbnailer"
      [] a = "xchange" -> "xchange"

\* the field of Endpoints written by `w.<field> = Some(ep.clone())`
WriteSlot(a) ==
    CASE a = "august" -> "august"
      [] a = "k9" -> "k9"
      [] a = "retina" -> "retina"
      [] a = "bankstatement" -> "bankstatement"
      [] a = "matrix" -> "matrix"
      [] a = "pandora" -> "pandora"
      [] a = "schematron" -> "pandora"
      [] a = "sentry" -> "sentry"
      [] a = "thumbnailer" -> "thumbnailer"
      [] a = "xchange" -> "xchange"

\* the sibling name in the literal key "ep-<name>" passed to get_cache
KeyName(a) ==
    CASE a = "august" -> N_august
      [] a = "k9" -> N_k9
      [] a = "retina" -> N_retina
      [] a = "bankstatement" -> N_bank_statement
      [] a = "matrix" -> N_matrix
      [] a = "pandora" -> N_pandora
      [] a = "schematron" -> N_schematron
      [] a = "sentry" -> N_sentry
      [] a = "thumbnailer" -> N_thumbnailer
      [] a = "xchange" -> N_xchange

\* the key passed to get_cache: the accessor's literal, or format!("ep-{sibling}")
EpKey(a, sibling) == T_ep \o (IF a = "sibling" THEN sibling ELSE KeyName(a))

\* a get_cache that forgets the prefix
GetCacheKeyNoPrefix(e, key) == key

\* get_cache: the key with the environment's prefix
GetCacheKey(e, key) == IF e = "Dev" THEN T_devdash \o key ELSE key

\* Db::get_cache_for_pool: the bytes under the key; an error when the store
\* cannot be reached (up = FALSE) or holds nothing under the key
DbGetCache(st, up, key) == IF up /\ key \in DOMAIN st THEN Ok(st[key]) ELSE Err

-----------------------------------------------------------------------------
(* Payloads.  The bytes of a JSON object whose values are all strings are  *)
(* <<"object", m>>, m the object as a function from its keys; any other    *)
(* bytes are <<"invalid">>.                                                *)

\* serde_json::to_vec of a HashMap<String, String>
SerdeToVec(m) == <<"object", m>>

\* serde_json::from_slice into a HashMap<String, String>
SerdeFromSlice(data) == IF data[1] = "object" THEN Ok(data[2]) ELSE Err

\* a deserialize that unwraps the parse (from_slice(..).unwrap()) instead of `?`
DeserializeUnwrapParse(data) ==
    LET r == SerdeFromSlice(data) IN
    IF ~IsOk(r) \/ "default" \notin DOMAIN r[2] THEN <<"Panic">>
    ELSE Ok([default |-> r[2]["default"],
             ind |-> IF "in" \in DOMAIN r[2] THEN Some(r[2]["in"]) ELSE None,
             usa |-> IF "us" \in DOMAIN r[2] THEN Some(r[2]["us"]) ELSE None])

\* Siblings::deserialize: Ok(record), Err, or <<"Panic">> for the unwrap of a
\* missing "default"
Deserialize(data) ==
    LET r == SerdeFromSlice(data) IN
    IF ~IsOk(r) THEN Err
    ELSE LET m == r[2] IN
         IF "default" \notin DOMAIN m THEN <<"Panic">>
         ELSE Ok([default |-> m["default"],
                  ind |-> IF "in" \in DOMAIN m THEN Some(m["in"]) ELSE None,
                  usa |-> IF "us" \in DOMAIN m THEN Some(m["us"]) ELSE None])

-----------------------------------------------------------------------------
(* Construction. *)

\* for_local: the slot an entry of svc.env is routed to, None for the open mapping
LocalSlot(key) ==
    CASE key = N_bank_statement -> Some("bankstatement")
      [] key = N_k9 -> Some("k9")
      [] key = N_matrix -> Some("matrix")
      [] key = N_pandora -> Some("pandora")
      [] key = N_retina -> Some("retina")
      [] key = N_schematron -> Some("schematron")
      [] key = N_sentry -> Some("sentry")
      [] key = N_thumbnailer -> Some("thumbnailer")
      [] key = N_xchange -> Some("xchange")
      [] OTHER -> None

\* for_local: one iteration of the loop over svc.env
LocalPut(e, key, val) ==
    LET endpoint == [default |-> T_localhost \o val, ind |-> None, usa |-> None] IN
    IF LocalSlot(key) # None
    THEN [e EXCEPT ![LocalSlot(key)[1]] = Some(endpoint)]
    ELSE [e EXCEPT !.siblings = MapInsert(e.siblings, SplitJoin(key), endpoint)]

\* for_local: svc is None when svc.env cannot be opened, else Some(items)
RECURSIVE LocalFold(_, _)
LocalFold(e, items) ==
    IF items = << >> THEN e
    ELSE LocalFold(LocalPut(e, Head(items)[1], Head(items)[2]), Tail(items))

ForLocal(svc) == IF svc = None THEN EndpointsDefault ELSE LocalFold(EndpointsDefault, svc[1])

\* Siblings::new: the registry it builds
SiblingsNew(xlocal, svc) ==
    IF xlocal # None /\ xlocal[1] = <<"T","R","U","E">> THEN ForLocal(svc) ELSE EndpointsDefault

-----------------------------------------------------------------------------
(* The seeder (main.rs) and the data it is run on. *)

\* an address of sibling n: a one-letter tag of the document, the name, a
\* one-letter tag of the field
Addr(tag, n, field) == <<tag>> \o n \o <<field>>

\* an entry with default and "in", one with all three fields, one with default only
EntryDI(tag, n) == (n :> [f \in {"default", "in"} |-> Addr(tag, n, IF f = "in" THEN "i" ELSE "d")])
EntryDIU(tag, n) ==
    (n :> [f \in {"default", "in", "us"} |->
             Addr(tag, n, IF f = "in" THEN "i" ELSE IF f = "us" THEN "u" ELSE "d")])
EntryD(tag, n) == (n :> [f \in {"default"} |-> Addr(tag, n, "d")])

\* the document of a deployment: sibling name -> {default, in, us}
Document(tag) ==
    EntryDI(tag, N_august) @@ EntryDI(tag, N_bank_statement) @@ EntryDIU(tag, N_k9)
    @@ EntryD(tag, N_matrix) @@ EntryD(tag, N_pandora) @@ EntryDI(tag, N_retina)
    @@ EntryD(tag, N_schematron) @@ EntryD(tag, N_sentry) @@ EntryDI(tag, N_thumbnailer)
    @@ EntryD(tag, N_xchange) @@ EntryDI(tag, N_credit)

SiblingsJson == Document("p")
SiblingsDevJson == Document("q")

\* load: isdev
IsDev(x) == x # None /\ x[1] = T_dev

\* load: the key an entry is written under
LoadKey(isdev, k) == IF isdev THEN T_devdash \o T_ep \o k ELSE T_ep \o k

\* load: the store after every entry of the document has been set
LoadStore(st, x) ==
    LET isdev == IsDev(x)
        data == IF isdev THEN SiblingsDevJson ELSE SiblingsJson
        written == {LoadKey(isdev, k) : k \in DOMAIN data}
    IN  [key \in DOMAIN st \cup written |->
            IF key \in written
            THEN SerdeToVec(data[CHOOSE k \in DOMAIN data : LoadKey(isdev, k) = key])
            ELSE st[key]]

-----------------------------------------------------------------------------
(* The inputs the model is run on. *)

\* X_ENV of the process environment (values on which Env::new_from_env panics
\* build no resolver)
XEnvValues == {None, Some(T_dev), Some(<<"P","R","O","D">>), Some(<<"D","e","v">>)}

\* the identity passed to Siblings::new
MeValues == {None, Some(N_credit)}

\* the region argument of a call
RegionArgs == {None, Some(<<"I","N">>), Some(<<"i","n">>)}

\* the sibling argument of sibling(..)
N_unknownsvc == <<"u","n","k","n","o","w","n","s","v","c">>
SiblingArgs == {N_credit, N_k9, N_unknownsvc}

\* what the store holds before the seeder runs: an earlier deployment's
\* documents under both prefixes, with no entry for thumbnailer, an object
\* without "default" for sentry and bytes that are no JSON for xchange
OldBytes(tag, n) ==
    CASE n = N_sentry -> SerdeToVec([f \in {"in"} |-> Addr(tag, n, "i")])
      [] n = N_xchange -> <<"invalid">>
      [] OTHER -> SerdeToVec(Document(tag)[n])

OldNames == DOMAIN Document("o") \ {N_thumbnailer}

InitialStore ==
    [key \in {T_ep \o n : n \in OldNames} \cup {T_devdash \o T_ep \o n : n \in OldNames} |->
        IF Head(key) = "e"
        THEN OldBytes("o", CHOOSE n \in OldNames : key = T_ep \o n)
        ELSE OldBytes("e", CHOOSE n \in OldNames : key = T_devdash \o T_ep \o n)]

-----------------------------------------------------------------------------
(* History kept beside the program's state, for the properties below: in  *)
(* a call, hit is the record a fast path found, key the store key a slow   *)
(* path read, got what the store answered (Answer); prior: the target had been      *)
(* populated (and not flushed since) when the call started; first: the     *)
(* call is the first to start after a flush() during which every other     *)
(* call in progress had already fetched; sawclean: no populate had         *)
(* followed the last flush() when the fast path read the registry;         *)
(* aftermiss: the target's last slow path had been a total miss then; own: *)
(* the populate left the record in the target's own entry; rawregion: the  *)
(* region argument as the caller passed it.                                *)

\* what a call is about: the accessor and, for sibling(..), the name
Target(c) == <<c.acc, c.sibling>>

\* what the store answers to a read of key: "down" (it cannot be reached),
\* "absent" (nothing under the key), "invalid" (bytes that are no JSON object
\* of strings), "nodefault" (an object without "default"), "record"
Answer(st, up, key) ==
    IF ~up THEN "down"
    ELSE IF key \notin DOMAIN st THEN "absent"
    ELSE IF st[key][1] # "object" THEN "invalid"
    ELSE IF "default" \notin DOMAIN st[key][2] THEN "nodefault"
    ELSE "record"

\* the registry entry of a target: its own field, or its entry of the open mapping
OwnEntry(e, t) ==
    IF t[1] = "sibling"
    THEN (IF t[2] \in DOMAIN e.siblings THEN Some(e.siblings[t[2]]) ELSE None)
    ELSE e[t[1]]

NewCall(a, sib, region) ==
    [acc |-> a, sibling |-> sib, region |-> region, rawregion |-> None, viame |-> FALSE,
     ep |-> None, ret |-> None,
     hit |-> None, key |-> None, got |-> "nofetch", prior |-> FALSE, first |-> FALSE,
     sawclean |-> FALSE, aftermiss |-> FALSE, own |-> FALSE]

-----------------------------------------------------------------------------
(* The state after construction. *)

\* Siblings::new(db, me) in a process environment with X_ENV in X and X_LOCAL
\* in XL, beside a svc.env in SV (None: no such file)
InitWith(X, M, XL, SV) ==
    /\ xenv \in {x \in X : IsOk(EnvNewFromEnv(x))}
    /\ env = EnvNewFromEnv(xenv)[2]
    /\ me \in M
    /\ \E xl \in XL, svc \in SV : endpoints = SiblingsNew(xl, svc)
    /\ lock = [readers |-> {}, writer |-> 0]
    /\ store = InitialStore
    /\ pc = [p \in Procs |-> "idle"]
    /\ call = [p \in Procs |-> NewCall("none", << >>, None)]
    /\ populated = {}
    /\ missed = {}
    /\ flushed = "no"
    /\ calls = 0
    /\ flushes = 0

-----------------------------------------------------------------------------
(* The calls.  A caller is idle, or at one of the await points of the call *)
(* it is making: "rlock" (endpoints.read().await), "read" (holding the     *)
(* read guard), "fetch" (get_cache(..).await), "wlock"                     *)
(* (endpoints.write().await), "write" (holding the write guard).           *)

Idle(p) == pc[p] \in {"idle", "returned", "panicked"}

\* a parse that takes a string it does not know for no region
ParseRegionLenient(r) ==
    IF r = None THEN Ok(None)
    ELSE IF IsOk(RegionsFrom(r[1])) THEN Ok(Some(RegionsFrom(r[1])[2]))
    ELSE Ok(None)

\* region.map(|r| r.into()): Ok(Option<Regions>), or Err for the panic
ParseRegion(r) ==
    IF r = None THEN Ok(None)
    ELSE IF IsOk(RegionsFrom(r[1])) THEN Ok(Some(RegionsFrom(r[1])[2]))
    ELSE Err

\* the first statement of an accessor (a in WellKnown, or "sibling" with the name sib)
Enter(p, a, sib, r, viame) ==
    /\ calls' = calls + 1
    /\ IF IsOk(ParseRegion(r))
       THEN /\ pc' = [pc EXCEPT ![p] = "rlock"]
            /\ call' = [call EXCEPT ![p] =
                 [NewCall(a, sib, ParseRegion(r)[2]) EXCEPT
                    !.rawregion = r,
                    !.viame = viame,
                    !.prior = <<a, sib>> \in populated,
                    !.first = (flushed = "fresh")]]
            /\ flushed' = IF flushed = "fresh" THEN "clean" ELSE flushed
       ELSE /\ pc' = [pc EXCEPT ![p] = "panicked"]
            /\ call' = [call EXCEPT ![p] =
                 [NewCall(a, sib, None) EXCEPT !.rawregion = r, !.viame = viame]]
            /\ UNCHANGED flushed
    /\ UNCHANGED <<xenv, env, me, endpoints, lock, store, populated, missed, flushes>>

\* august(region) .. xchange(region)
Begin(p, a, r) ==
    /\ Idle(p)
    /\ calls < MaxCalls
    /\ Enter(p, a, << >>, r, FALSE)

\* sibling(sibling, region)
BeginSibling(p, sib, r) ==
    /\ Idle(p)
    /\ calls < MaxCalls
    /\ Enter(p, "sibling", sib, r, FALSE)

\* a me(..) that passes no region on to sibling(..)
BeginMeDropsRegion(p, r) ==
    /\ Idle(p)
    /\ calls < MaxCalls
    /\ IF me # None
       THEN Enter(p, "sibling", me[1], None, TRUE)
       ELSE /\ pc' = [pc EXCEPT ![p] = "returned"]
            /\ call' = [call EXCEPT ![p] = [NewCall("me", << >>, None) EXCEPT !.viame = TRUE]]
            /\ calls' = calls + 1
            /\ UNCHANGED <<xenv, env, me, endpoints, lock, store, populated, missed, flushed, flushes>>

\* me(region)
BeginMe(p, r) ==
    /\ Idle(p)
    /\ calls < MaxCalls
    /\ IF me # None
       THEN Enter(p, "sibling", me[1], r, TRUE)
       ELSE /\ pc' = [pc EXCEPT ![p] = "returned"]
            /\ call' = [call EXCEPT ![p] = [NewCall("me", << >>, None) EXCEPT !.viame = TRUE]]
            /\ calls' = calls + 1
            /\ UNCHANGED <<xenv, env, me, endpoints, lock, store, populated, missed, flushed, flushes>>

\* self.endpoints.read().await returns
AcquireRead(p) ==
    /\ pc[p] = "rlock"
    /\ lock.writer = 0
    /\ lock' = [lock EXCEPT !.readers = @ \cup {p}]
    /\ pc' = [pc EXCEPT ![p] = "read"]
    /\ UNCHANGED <<xenv, env, me, endpoints, store, call, populated, missed, flushed, calls, flushes>>

\* what the fast path finds under the read guard
Lookup(e, a, sib) ==
    IF a = "sibling"
    THEN (IF sib \in DOMAIN e.siblings THEN Some(e.siblings[sib]) ELSE None)
    ELSE e[ReadSlot(a)]

\* a fast path whose read guard is bound to a local that lives to the end of
\* the function: a miss goes on to the fetch with the guard held
FastPathKeepsGuard(p) ==
    /\ pc[p] = "read"
    /\ LET c == call[p]
           found == Lookup(endpoints, c.acc, c.sibling)
           seen == [c EXCEPT !.sawclean = (flushed # "no"),
                             !.aftermiss = (Target(c) \in missed)]
       IN  IF found # None
           THEN /\ call' = [call EXCEPT ![p] =
                              [seen EXCEPT !.ret = RegionEndpointGet(found[1], c.region),
                                           !.hit = found]]
                /\ pc' = [pc EXCEPT ![p] = "returned"]
                /\ lock' = [lock EXCEPT !.readers = @ \ {p}]
           ELSE /\ call' = [call EXCEPT ![p] = seen]
                /\ pc' = [pc EXCEPT ![p] = "fetch"]
                /\ UNCHANGED lock
    /\ UNCHANGED <<xenv, env, me, endpoints, store, populated, missed, flushed, calls, flushes>>

\* a fast path without the `return`: a hit computes the address and falls
\* through to the fetch
FastPathFallsThrough(p) ==
    /\ pc[p] = "read"
    /\ LET c == call[p]
           found == Lookup(endpoints, c.acc, c.sibling)
           seen == [c EXCEPT !.sawclean = (flushed # "no"),
                             !.aftermiss = (Target(c) \in missed)]
       IN  IF found # None
           THEN call' = [call EXCEPT ![p] =
                           [seen EXCEPT !.ret = RegionEndpointGet(found[1], c.region),
                                        !.hit = found]]
           ELSE call' = [call EXCEPT ![p] = seen]
    /\ pc' = [pc EXCEPT ![p] = "fetch"]
    /\ lock' = [lock EXCEPT !.readers = @ \ {p}]
    /\ UNCHANGED <<xenv, env, me, endpoints, store, populated, missed, flushed, calls, flushes>>

\* the fast path: a hit returns, a miss goes on to the fetch; the guard is
\* dropped at the end of the `if let` either way
FastPath(p) ==
    /\ pc[p] = "read"
    /\ LET c == call[p]
           found == Lookup(endpoints, c.acc, c.sibling)
           seen == [c EXCEPT !.sawclean = (flushed # "no"),
                             !.aftermiss = (Target(c) \in missed)]
       IN  IF found # None
           THEN /\ call' = [call EXCEPT ![p] =
                              [seen EXCEPT !.ret = RegionEndpointGet(found[1], c.region),
                                           !.hit = found]]
                /\ pc' = [pc EXCEPT ![p] = "returned"]
           ELSE /\ call' = [call EXCEPT ![p] = seen]
                /\ pc' = [pc EXCEPT ![p] = "fetch"]
    /\ lock' = [lock EXCEPT !.readers = @ \ {p}]
    /\ UNCHANGED <<xenv, env, me, endpoints, store, populated, missed, flushed, calls, flushes>>

\* the slow path up to the write lock: get_cache and deserialize
Fetch(p, up) ==
    /\ pc[p] = "fetch"
    /\ LET c == call[p]
           key == GetCacheKey(env, EpKey(c.acc, c.sibling))
           got == DbGetCache(store, up, key)
           d == IF IsOk(got) THEN Deserialize(got[2]) ELSE Err
           asked == [c EXCEPT !.key = Some(key), !.got = Answer(store, up, key)]
       IN  CASE IsOk(d) ->
                  /\ call' = [call EXCEPT ![p] = [asked EXCEPT !.ep = Some(d[2])]]
                  /\ pc' = [pc EXCEPT ![p] = "wlock"]
                  /\ UNCHANGED missed
             [] d = Err ->
                  /\ call' = [call EXCEPT ![p] = asked]
                  /\ pc' = [pc EXCEPT ![p] = "returned"]
                  /\ missed' = missed \cup {Target(c)}
             [] OTHER ->
                  /\ call' = [call EXCEPT ![p] = asked]
                  /\ pc' = [pc EXCEPT ![p] = "panicked"]
                  /\ UNCHANGED missed
    /\ UNCHANGED <<xenv, env, me, endpoints, lock, store, populated, flushed, calls, flushes>>

\* a write lock that does not wait for the readers to leave
AcquireWriteIgnoresReaders(p) ==
    /\ pc[p] = "wlock"
    /\ lock.writer = 0
    /\ lock' = [lock EXCEPT !.writer = p]
    /\ pc' = [pc EXCEPT ![p] = "write"]
    /\ UNCHANGED <<xenv, env, me, endpoints, store, call, populated, missed, flushed, calls, flushes>>

\* self.endpoints.write().await returns (in an accessor or in flush)
AcquireWrite(p) ==
    /\ pc[p] = "wlock"
    /\ lock.writer = 0
    /\ lock.readers = {}
    /\ lock' = [lock EXCEPT !.writer = p]
    /\ pc' = [pc EXCEPT ![p] = "write"]
    /\ UNCHANGED <<xenv, env, me, endpoints, store, call, populated, missed, flushed, calls, flushes>>

\* the registry after the populate of an accessor
Put(e, a, sib, ep) ==
    IF a = "sibling"
    THEN [e EXCEPT !.siblings = MapInsert(e.siblings, sib, ep)]
    ELSE [e EXCEPT ![WriteSlot(a)] = Some(ep)]

\* populate under the write guard, and return
Populate(p) ==
    /\ pc[p] = "write"
    /\ call[p].acc # "flush"
    /\ LET c == call[p]
           e == Put(endpoints, c.acc, c.sibling, c.ep[1])
       IN  /\ endpoints' = e
           /\ call' = [call EXCEPT ![p] =
                         [c EXCEPT !.ret = RegionEndpointGet(c.ep[1], c.region),
                                   !.own = (OwnEntry(e, Target(c)) = c.ep)]]
           /\ populated' = populated \cup {Target(c)}
           /\ missed' = missed \ {Target(c)}
    /\ lock' = [lock EXCEPT !.writer = 0]
    /\ pc' = [pc EXCEPT ![p] = "returned"]
    /\ flushed' = "no"
    /\ UNCHANGED <<xenv, env, me, store, calls, flushes>>

\* flush(): up to the write lock
BeginFlush(p) ==
    /\ Idle(p)
    /\ flushes < MaxFlushes
    /\ pc' = [pc EXCEPT ![p] = "wlock"]
    /\ call' = [call EXCEPT ![p] = NewCall("flush", << >>, None)]
    /\ flushes' = flushes + 1
    /\ UNCHANGED <<xenv, env, me, endpoints, lock, store, populated, missed, flushed, calls>>

\* a flush() that forgets the open mapping
FlushedSlotsOnly(e) == [EndpointsDefault EXCEPT !.siblings = e.siblings]

\* the registry flush() leaves
Flushed(e) == EndpointsDefault

\* flush(): replace the registry under the write guard
Flush(p) ==
    /\ pc[p] = "write"
    /\ call[p].acc = "flush"
    /\ endpoints' = Flushed(endpoints)
    /\ lock' = [lock EXCEPT !.writer = 0]
    /\ pc' = [pc EXCEPT ![p] = "returned"]
    /\ call' = [q \in Procs |->
                  IF pc[q] = "rlock" THEN [call[q] EXCEPT !.prior = FALSE] ELSE call[q]]
    /\ populated' = {}
    /\ missed' = {}
    /\ flushed' = IF \A q \in Procs : pc[q] \notin {"rlock", "fetch"} THEN "fresh" ELSE "clean"
    /\ UNCHANGED <<xenv, env, me, store, calls, flushes>>

\* the seeder: main.rs run to its end, ahead of the resolver's use
Load ==
    /\ calls = 0
    /\ flushes = 0
    /\ store' = LoadStore(store, xenv)
    /\ UNCHANGED <<xenv, env, me, endpoints, lock, pc, call, populated, missed, flushed, calls, flushes>>

\* the steps of callers P calling the accessors A and sibling(..) with the
\* names S, with the region arguments R, and calling flush()
Step(P, A, S, R) ==
    \/ \E p \in P, a \in A, r \in R : Begin(p, a, r)
    \/ \E p \in P, sib \in S, r \in R : BeginSibling(p, sib, r)
    \/ \E p \in P : AcquireRead(p)
    \/ \E p \in P : FastPath(p)
    \/ \E p \in P, up \in BOOLEAN : Fetch(p, up)
    \/ \E p \in P : AcquireWrite(p)
    \/ \E p \in P : Populate(p)
    \/ \E p \in P : BeginFlush(p)
    \/ \E p \in P : Flush(p)

\* the steps of callers P calling me(..)
StepMe(P, R) == \E p \in P, r \in R : BeginMe(p, r)

(* Every operation, by concurrent callers. *)

Init == InitWith({Some(T_dev), Some(<<"P","R","O","D">>)}, {None}, {None}, {None})

Next ==
    \/ Step(Procs, WellKnown, SiblingArgs, RegionArgs)
    \/ StepMe(Procs, RegionArgs)
    \/ Load

Spec == Init /\ [][Next]_vars

(* Every accessor, by one caller. *)

NextSeq ==
    \/ Step({1}, WellKnown, SiblingArgs, RegionArgs)
    \/ Load

SpecSeq == Init /\ [][NextSeq]_vars

(* Concurrent callers of a few accessors: one that reads and writes its own *)
(* slot, one that reads another's, and the open mapping.                    *)

InitRace == InitWith({Some(T_dev)}, {None}, {None}, {None})

NextRace == Step(Procs, {"august", "retina"}, {N_k9}, {None})

SpecRace == InitRace /\ [][NextRace]_vars

(* Concurrent callers of accessors that read and write their own slot, and *)
(* of sibling(..) under the name of one of them.                           *)

NextTwin == Step(Procs, {"august", "k9"}, {N_k9}, {None})

SpecTwin == InitRace /\ [][NextTwin]_vars

(* One caller, every accepted region argument, records with both, one and *)
(* no regional override.                                                  *)

RegionArgsAccepted ==
    {None, Some(<<"I","N">>), Some(<<"I","N","D">>), Some(<<"U","S">>), Some(<<"U","S","A">>)}

NextRegions == Step({1}, {"august", "k9", "matrix"}, {N_credit}, RegionArgsAccepted)

SpecRegions == Init /\ [][NextRegions]_vars

(* The seeder and one caller, under every X_ENV that builds a resolver. *)

InitSeed == InitWith(XEnvValues, {None}, {None}, {None})

NextSeed ==
    \/ Step({1}, {"august", "matrix", "thumbnailer"}, {N_credit}, {Some(<<"I","N">>)})
    \/ Load

SpecSeed == InitSeed /\ [][NextSeed]_vars

(* One caller of a resolver built in local-override mode. *)

N_my_svc == <<"m","y","_","s","v","c">>
N_my_svc_hyphen == <<"m","y","-","s","v","c">>

\* the entries of svc.env: key, port
SvcEnv ==
    << <<N_matrix, <<"9","0","0","1">> >>, <<N_august, <<"9","0","0","0">> >>,
       <<N_k9, <<"9","0","0","2">> >>, <<N_bank_statement, <<"9","0","0","4">> >>,
       <<N_my_svc, <<"8","0","8","1">> >>,
       <<N_credit, <<"8","0","8","0">> >> >>

InitLocal == InitWith({Some(T_dev)}, {None}, {Some(<<"T","R","U","E">>)}, {Some(SvcEnv)})

NextLocal == Step({1}, WellKnown, {N_credit, N_my_svc_hyphen}, {None})

SpecLocal == InitLocal /\ [][NextLocal]_vars

(* Concurrent callers under fair scheduling: a caller at an await point  *)
(* whose future is ready is polled again, a store call returns, and the  *)
(* lock's queue of waiters is fair, so a waiter is granted the lock when *)
(* it is free again and again.                                           *)

NextLive ==
    \/ \E p \in Procs : Begin(p, "august", None)
    \/ \E p \in Procs : AcquireRead(p)
    \/ \E p \in Procs : FastPath(p)
    \/ \E p \in Procs, up \in BOOLEAN : Fetch(p, up)
    \/ \E p \in Procs : AcquireWrite(p)
    \/ \E p \in Procs : Populate(p)
    \/ \E p \in Procs : BeginFlush(p)
    \/ \E p \in Procs : Flush(p)

\* the steps a caller takes by itself once it is polled (at most one of them
\* is enabled at a time), and the steps in which the lock is granted to it
Proceed(p) == FastPath(p) \/ (\E up \in BOOLEAN : Fetch(p, up)) \/ Populate(p) \/ Flush(p)
Granted(p) == AcquireRead(p) \/ AcquireWrite(p)

Fairness == \A p \in Procs : WF_vars(Proceed(p)) /\ SF_vars(Granted(p))

SpecLive == InitRace /\ [][NextLive]_vars /\ Fairness

(* One caller, region arguments in every letter case and outside the *)
(* aliases.                                                          *)

RegionArgsTried ==
    {None, Some(<<"I","N">>), Some(<<"i","n">>), Some(<<"I","n","d">>), Some(<<"U","S">>),
     Some(<<"u","s","a">>), Some(<<"E","U">>), Some(<<"I","N","D","I","A">>), Some(<< >>)}

NextParse == Step({1}, {"august", "k9"}, {N_credit}, RegionArgsTried)

SpecParse == Init /\ [][NextParse]_vars

(* Concurrent callers of me(..) and of sibling(..), with and without an *)
(* identity.                                                            *)

RegionArgsMe == {None, Some(<<"I","N">>)}

InitMe == InitWith({Some(T_dev)}, MeValues, {None}, {None})

NextMe ==
    \/ \E p \in Procs : BeginSibling(p, N_credit, Some(<<"I","N">>))
    \/ StepMe(Procs, RegionArgsMe)
    \/ \E p \in Procs : AcquireRead(p)
    \/ \E p \in Procs : FastPath(p)
    \/ \E p \in Procs, up \in BOOLEAN : Fetch(p, up)
    \/ \E p \in Procs : AcquireWrite(p)
    \/ \E p \in Procs : Populate(p)
    \/ \E p \in Procs : BeginFlush(p)
    \/ \E p \in Procs : Flush(p)

SpecMe == InitMe /\ [][NextMe]_vars

(* One caller that resolves well-known siblings through their accessors *)
(* and through sibling(..), on a fresh registry and on a locally seeded *)
(* one.                                                                 *)

InitPaths ==
    InitWith({Some(T_dev)}, {None}, {None, Some(<<"T","R","U","E">>)}, {Some(SvcEnv)})

NextPaths == Step({1}, {"august", "k9", "retina"}, {N_august, N_k9, N_retina}, {None})

SpecPaths == InitPaths /\ [][NextPaths]_vars

-----------------------------------------------------------------------------
(* Properties. *)

\* the sibling a call resolves
SiblingName(c) == IF c.acc = "sibling" THEN c.sibling ELSE KeyName(c.acc)

\* the sibling an address of the documents belongs to
Owner(addr) == SubSeq(addr, 2, Len(addr) - 1)

Resolving(p) == call[p].acc \in WellKnown \cup {"sibling"}

\* C1: with no flush() in between, a call that starts after a call for the
\* same sibling (same accessor, same name) has fetched and populated a record
\* issues no backing-store fetch.
C1_CacheHitIdempotence ==
    \A p \in Procs : call[p].prior => call[p].key = None

\* C2: every populated fixed slot holds a record of its own sibling's store
\* key, and an accessor of a well-known sibling returns only addresses of
\* its own sibling's record.
C2_OwnSlotOnly ==
    /\ \A a \in WellKnown :
          endpoints[a] # None => Owner(endpoints[a][1].default) = KeyName(a)
    /\ \A p \in Procs :
          (pc[p] = "returned" /\ call[p].acc \in WellKnown /\ call[p].ret # None)
             => Owner(call[p].ret[1]) = KeyName(call[p].acc)

C4_NoDefaultIsAbsence ==
    \A p \in Procs :
       call[p].got = "nodefault"
          => pc[p] = "returned" /\ call[p].ret = None /\ call[p].ep = None

\* C5: when the store read fails (the store cannot be reached, or holds
\* nothing under the key) or its bytes do not parse, the call returns None,
\* and no step of the call has changed the registry.
C5_FetchFailureIsAbsence ==
    [][\A p \in Procs :
          /\ (pc[p] = "fetch" /\ pc'[p] # "fetch"
                /\ call'[p].got \in {"down", "absent", "invalid"})
                => (pc'[p] = "returned" /\ call'[p].ret = None /\ endpoints' = endpoints)
          /\ (pc[p] \in {"rlock", "read", "fetch"} /\ pc'[p] # pc[p])
                => endpoints' = endpoints]_vars

\* C5's case: a call has returned None after bytes that do not parse, beside
\* a registry that holds a record.
C5_Witness ==
    \E p \in Procs :
       /\ pc[p] = "returned"
       /\ call[p].got = "invalid"
       /\ call[p].ret = None
       /\ endpoints # EndpointsDefault

\* C6: a call whose fast path runs when the last slow path of its sibling
\* ended in a total miss (and none has populated since) fetches from the
\* store; when that fetch returns a well-formed record, the call returns an
\* address and leaves the record in the sibling's registry entry.
C6_NoNegativeCaching ==
    \A p \in Procs :
       (call[p].aftermiss /\ pc[p] = "returned")
          => /\ call[p].key # None
             /\ call[p].got = "record" => (call[p].ret # None /\ call[p].own)

\* the record a returned call resolved its address from
Resolved(c) == IF c.hit # None THEN c.hit ELSE c.ep

\* C7: from a record, no region gives the default; a region with an override
\* gives the override; a region without one gives the default; the result is
\* never None.
C7_RegionFallback ==
    \A p \in Procs :
       (pc[p] = "returned" /\ Resolved(call[p]) # None)
          => LET rec == Resolved(call[p])[1]
                 r == call[p].region
                 over == IF r = None THEN None
                         ELSE IF r[1] = "IN" THEN rec.ind ELSE rec.usa
             IN  /\ call[p].ret # None
                 /\ over # None => call[p].ret = over
                 /\ over = None => call[p].ret[1] = rec.default

\* C7's case: region US asked of a record that has an override for IN only.
C7_Witness ==
    \E p \in Procs :
       /\ pc[p] = "returned"
       /\ call[p].region = Some("US")
       /\ Resolved(call[p]) # None
       /\ Resolved(call[p])[1].ind # None
       /\ Resolved(call[p])[1].usa = None
       /\ call[p].ret = Some(Resolved(call[p])[1].default)

\* names a resolver may be asked for, the prefixes themselves among them
NamesTried ==
    {KeyName(a) : a \in WellKnown} \cup SiblingArgs
       \cup {<< >>, <<"d","e","v","-","e","p","-","k","9">>, <<"e","p","-","k","9">>,
             <<"d","e","v","-">>, <<"d","e","v","-","k","9">>}

\* C8: a resolver in development reads "dev-ep-<name>", one in production
\* "ep-<name>", and no development key is a production key.
C8_Namespacing ==
    /\ \A p \in Procs :
          call[p].key # None
             => call[p].key[1] =
                   (IF env = "Dev" THEN <<"d","e","v","-","e","p","-">> ELSE <<"e","p","-">>)
                      \o SiblingName(call[p])
    /\ \A a, b \in NamesTried :
          <<"d","e","v","-","e","p","-">> \o a # <<"e","p","-">> \o b

\* C8's case: a development resolver has read the key of sibling(..).
C8_Witness ==
    \E p \in Procs :
       /\ env = "Dev"
       /\ call[p].acc = "sibling"
       /\ call[p].key # None
       /\ call[p].got = "record"


\* the seeder has run: every entry of its document is in the store
SeededDocument == IF IsDev(xenv) THEN SiblingsDevJson ELSE SiblingsJson

Seeded == \A n \in DOMAIN SeededDocument :
             /\ LoadKey(IsDev(xenv), n) \in DOMAIN store
             /\ store[LoadKey(IsDev(xenv), n)] = SerdeToVec(SeededDocument[n])

\* C9: under one value of X_ENV, the key the resolver reads for a sibling is
\* the key the seeder wrote it under, and so, once the document is seeded
\* (and the store can be reached), resolving a sibling of the document with
\* region IN returns its "in" address, or its "default" address if it has no
\* "in".
C9_SeederMatchesResolver ==
    \A p \in Procs :
       (Seeded /\ pc[p] = "returned" /\ Resolving(p)
          /\ SiblingName(call[p]) \in DOMAIN SeededDocument
          /\ call[p].got # "down")
          => LET entry == SeededDocument[SiblingName(call[p])] IN
             /\ call[p].key # None
                   => call[p].key[1] = LoadKey(IsDev(xenv), SiblingName(call[p]))
             /\ call[p].region = Some("IN")
                   => call[p].ret =
                         Some(IF "in" \in DOMAIN entry THEN entry["in"] ELSE entry["default"])

\* the sibling name of an entry of svc.env
Hyphenated(k) == [i \in 1 .. Len(k) |-> IF k[i] = "_" THEN "-" ELSE k[i]]

\* C10: in local-override mode (and before any flush()), resolving the
\* sibling of an entry key=port of svc.env through its accessor returns
\* "http://localhost:<port>" without a read of the store.
C10_LocalOverride ==
    \A p \in Procs :
       \A i \in 1 .. Len(SvcEnv) :
          (flushes = 0 /\ pc[p] = "returned" /\ Resolving(p)
             /\ SiblingName(call[p]) = Hyphenated(SvcEnv[i][1]))
             => /\ call[p].key = None
                /\ call[p].ret =
                      Some(<<"h","t","t","p",":","/","/","l","o","c","a","l","h","o","s","t",":">>
                              \o SvcEnv[i][2])

\* C11: a call's region argument is parsed whatever its letter case: any
\* casing of "IN" or "IND" gives IN, any casing of "US" or "USA" gives US
\* (the call goes on), and every other string fails as unsupported.
C11_RegionParseCaseInsensitive ==
    \A p \in Procs :
       (Resolving(p) /\ call[p].rawregion # None)
          => LET folded == ToLowercase(call[p].rawregion[1]) IN
             IF folded \in {<<"i","n">>, <<"i","n","d">>}
             THEN pc[p] # "panicked" /\ call[p].region = Some("IN")
             ELSE IF folded \in {<<"u","s">>, <<"u","s","a">>}
             THEN pc[p] # "panicked" /\ call[p].region = Some("US")
             ELSE pc[p] = "panicked" /\ call[p].key = None

\* C12: with no identity, a step of me(region) returns None at once and
\* leaves registry, lock and store as they are; with identity i, a step of
\* me(region) is the first step of sibling(i, region) (the same parse of the
\* region, the same wait for the read lock, nothing else changed), and a call
\* made through me(..) reads the open mapping under i, fetches the store key
\* of i and returns the address of the record it found, as sibling(i, region).
C12_MeIsSibling ==
    [][/\ \A p \in Procs, r \in RegionArgsMe :
          BeginMe(p, r) =>
             /\ endpoints' = endpoints /\ lock' = lock /\ store' = store
             /\ me = None =>
                   /\ pc'[p] = "returned"
                   /\ call'[p].ret = None /\ call'[p].hit = None /\ call'[p].key = None
             /\ me # None =>
                   /\ Target(call'[p]) = <<"sibling", me[1]>>
                   /\ call'[p].rawregion = r
                   /\ IF IsOk(ParseRegion(r))
                      THEN pc'[p] = "rlock" /\ call'[p].region = ParseRegion(r)[2]
                      ELSE pc'[p] = "panicked"
                   /\ \A q \in Procs :
                         (call[q].acc = "sibling" /\ ~call[q].viame /\ pc[q] = "rlock"
                            /\ call[q].sibling = me[1] /\ call[q].rawregion = r
                            /\ call[q].prior = call'[p].prior /\ call[q].first = call'[p].first)
                            => call'[p] = [call[q] EXCEPT !.viame = TRUE]
       /\ \A q \in Procs :
             (call'[q].viame /\ me # None /\ pc'[q] = "returned")
                => /\ call'[q].key \in {None, Some(GetCacheKey(env, T_ep \o me[1]))}
                   /\ call'[q].ret =
                         IF Resolved(call'[q]) = None THEN None
                         ELSE RegionEndpointGet(Resolved(call'[q])[1], call'[q].region)]_vars

\* C12's case: a call made through me(..) with an identity has fetched the
\* identity's record and returned its "in" address, and a later me(..) is a
\* cache hit.
C12_Witness ==
    \E p, q \in Procs :
       /\ p # q /\ me # None
       /\ call[p].viame /\ pc[p] = "returned" /\ call[p].got = "record"
       /\ call[p].region = Some("IN") /\ call[p].ret = call[p].ep[1].ind
       /\ call[q].viame /\ pc[q] = "returned" /\ call[q].hit # None

\* C13: a caller that is fetching from the backing store holds the registry
\* lock in neither mode, and a caller of an accessor waits for or holds the
\* write lock only with the fetched and deserialized record in hand.
C13_NoFetchUnderLock ==
    \A p \in Procs :
       /\ pc[p] = "fetch" => (p \notin lock.readers /\ lock.writer # p)
       /\ (pc[p] \in {"wlock", "write"} /\ Resolving(p))
             => (call[p].key # None /\ call[p].ep # None /\ p \notin lock.readers)

\* C13's case: one caller is fetching while another holds the write guard.
C13_Witness ==
    \E p, q \in Procs :
       /\ pc[p] = "fetch" /\ Resolving(p)
       /\ pc[q] = "write" /\ lock.writer = q /\ Resolving(q)

\* the registry entry the populate of a call writes
WrittenEntry(e, c) ==
    IF c.acc = "sibling"
    THEN (IF c.sibling \in DOMAIN e.siblings THEN Some(e.siblings[c.sibling]) ELSE None)
    ELSE e[WriteSlot(c.acc)]

\* a step in which caller p populates the registry
Populates(p) == Resolving(p) /\ pc[p] = "write" /\ pc'[p] = "returned"

\* C14 as claimed: with no flush(), an entry of the registry is written once:
\* no populate writes an entry that has been written before.
C14_WrittenOnce ==
    [][\A p \in Procs :
          (flushes = 0 /\ Populates(p)) => WrittenEntry(endpoints, call[p]) = None]_vars

\* C14 as amended: with no flush(), an entry of the registry is written only
\* by the populate of a call whose fast path missed and whose fetch returned
\* a well-formed record, once by every such call (so more than once when
\* concurrent calls miss together); a call whose fast path finds a record
\* never writes, and no other step of a call changes the registry.
C14_WrittenOncePerMiss ==
    [][flushes = 0 =>
          /\ \A p \in Procs :
                Populates(p) =>
                   /\ call[p].hit = None /\ call[p].got = "record" /\ call[p].ep # None
                   /\ WrittenEntry(endpoints', call[p]) = call[p].ep
                   /\ \A a \in DOMAIN endpoints \ {"siblings"} :
                         endpoints'[a] # endpoints[a] => a = WriteSlot(call[p].acc)
                   /\ call[p].acc # "sibling" => endpoints'.siblings = endpoints.siblings
          /\ \A p \in Procs :
                (call'[p].acc \in WellKnown \cup {"sibling"} /\ call'[p].hit # None)
                   => pc'[p] = "returned"
          /\ (\A p \in Procs : ~Populates(p)) => endpoints' = endpoints]_vars

\* C14's case: with no flush(), two concurrent calls for one sibling have
\* both missed, fetched and populated its entry.
C14_Witness ==
    \E p, q \in Procs :
       /\ p # q /\ flushes = 0
       /\ Target(call[p]) = Target(call[q])
       /\ pc[p] = "returned" /\ call[p].got = "record" /\ call[p].ret # None
       /\ pc[q] = "returned" /\ call[q].got = "record" /\ call[q].ret # None
       /\ WrittenEntry(endpoints, call[p]) = call[p].ep

\* every call made so far is the current call of its caller, and all of them
\* are for one sibling
OneSiblingOnly ==
    /\ calls = Cardinality({p \in Procs : call[p].acc # "none"})
    /\ \A p, q \in Procs :
          (call[p].acc # "none" /\ call[q].acc # "none")
             => (Resolving(p) /\ Target(call[p]) = Target(call[q]))

\* C15: with the store value of a sibling unchanged and well formed, when
\* only calls for that sibling (unpopulated before them) have been made, in
\* any interleaving and with no flush(), every call that has returned and
\* whose store read, if any, was answered has returned the address that
\* value gives for its region, and once all of them have returned the
\* sibling's registry entry is the record deserialized from that value.
C15_DuplicatePopulateIsEqual ==
    \A p \in Procs :
       (flushes = 0 /\ OneSiblingOnly /\ pc[p] = "returned" /\ call[p].got # "down")
          => LET key == GetCacheKey(env, EpKey(call[p].acc, call[p].sibling)) IN
             (key \in DOMAIN store /\ IsOk(Deserialize(store[key])))
                => LET rec == Deserialize(store[key])[2] IN
                   /\ call[p].ret = RegionEndpointGet(rec, call[p].region)
                   /\ (\A q \in Procs : Idle(q))
                         => OwnEntry(endpoints, Target(call[p])) = Some(rec)

\* a region argument outside the aliases, whatever its letter case
OutsideAliases(r) ==
    /\ r # None
    /\ ToLowercase(r[1]) \notin {<<"i","n">>, <<"i","n","d">>, <<"u","s">>, <<"u","s","a">>}

\* C16: a call with a region string outside the aliases fails in its first
\* step: that step leaves registry, lock and store as they are, and the call
\* never waits for or holds the lock, reads the registry or the store.
C16_BadRegionFailsFirst ==
    [][\A p \in Procs :
          (call'[p].acc \in WellKnown \cup {"sibling"} /\ OutsideAliases(call'[p].rawregion))
             => /\ pc'[p] = "panicked"
                /\ call'[p].hit = None /\ call'[p].key = None /\ call'[p].got = "nofetch"
                /\ call'[p].ep = None /\ call'[p].ret = None
                /\ p \notin lock'.readers /\ lock'.writer # p
                /\ call'[p] # call[p]
                      => (endpoints' = endpoints /\ lock' = lock /\ store' = store
                            /\ populated' = populated /\ missed' = missed)]_vars

\* C16's case: a call with region "EU" has failed beside a registry that an
\* earlier call populated.
C16_Witness ==
    \E p \in Procs :
       /\ pc[p] = "panicked"
       /\ call[p].rawregion = Some(<<"E","U">>)
       /\ endpoints # EndpointsDefault

\* a step in which caller p's flush() replaces the registry
Flushes(p) == call[p].acc = "flush" /\ pc[p] = "write" /\ pc'[p] = "returned"

\* the entries of a registry that hold a record
Held(e) ==
    {<<"slot", KeyName(a)>> : a \in {x \in WellKnown : e[x] # None}}
       \cup {<<"sibling", n>> : n \in DOMAIN e.siblings}

\* C17: the step of flush() that replaces the registry leaves every fixed
\* slot absent and the open mapping empty, and is taken with the write guard
\* held and no read guard out; no reader holds a read guard while a writer
\* holds the write guard; and no step clears some of the entries that hold a
\* record and leaves others.
C17_FlushIsAtomic ==
    [][/\ \A p \in Procs :
             Flushes(p) =>
                /\ \A a \in WellKnown : endpoints'[a] = None
                /\ DOMAIN endpoints'.siblings = {}
                /\ lock.writer = p /\ lock.readers = {}
       /\ lock'.readers # {} => lock'.writer = 0
       /\ \A p \in Procs : pc'[p] = "read" <=> p \in lock'.readers
       /\ Held(endpoints) \ Held(endpoints') # {} => Held(endpoints') = {}]_vars

\* C17's case: flush() has just emptied a registry that held a record,
\* which an earlier call had found on its fast path.
C17_Witness ==
    \E p, q \in Procs :
       /\ call[p].acc = "flush" /\ pc[p] = "returned"
       /\ endpoints = EndpointsDefault /\ flushed # "no"
       /\ pc[q] = "returned" /\ call[q].hit # None

\* C18: no caller waits for (or holds) the write lock while it holds a read
\* guard, and, under fair scheduling with a store whose calls return, every
\* call of an accessor and every flush() that has started comes to its end.
C18_NoDeadlock ==
    /\ [](\A p \in Procs : pc[p] \in {"wlock", "write"} => p \notin lock.readers)
    /\ \A p \in Procs : (~Idle(p)) ~> (pc[p] \in {"returned", "panicked"})

\* C18's case: flush() waits for the write lock while another caller holds
\* a read guard.
C18_Witness ==
    \E p, q \in Procs :
       /\ pc[p] = "wlock" /\ call[p].acc = "flush"
       /\ pc[q] = "read" /\ q \in lock.readers

\* a step in which caller p's fast path reads the registry
ReadsRegistry(p) == pc[p] = "read" /\ pc'[p] # "read"

\* C19: the populate of sibling(name) changes no fixed slot and the populate
\* of a named accessor leaves the open mapping as it is; the fast path of
\* sibling(name) hits exactly when the open mapping holds name, whatever the
\* fixed slots hold; the fast path of a named accessor whose sibling has a
\* record in the open mapping and none in its fixed slot misses; and after a
\* miss both paths read the store key "ep-<name>" (with the environment's
\* prefix) of the sibling's name.
C19_PathsAreDisjoint ==
    [][\A p \in Procs :
          /\ (Populates(p) /\ call[p].acc = "sibling")
                => \A a \in WellKnown : endpoints'[a] = endpoints[a]
          /\ (Populates(p) /\ call[p].acc \in WellKnown)
                => endpoints'.siblings = endpoints.siblings
          /\ (ReadsRegistry(p) /\ call[p].acc = "sibling")
                => IF call[p].sibling \in DOMAIN endpoints.siblings
                   THEN /\ pc'[p] = "returned"
                        /\ call'[p].hit = Some(endpoints.siblings[call[p].sibling])
                   ELSE pc'[p] = "fetch"
          /\ (ReadsRegistry(p) /\ call[p].acc \in WellKnown
                /\ KeyName(call[p].acc) \in DOMAIN endpoints.siblings
                /\ endpoints[call[p].acc] = None)
                => pc'[p] = "fetch"
          /\ (call'[p].acc \in WellKnown \cup {"sibling"} /\ call'[p].key # None)
                => call'[p].key = Some(GetCacheKey(env, T_ep \o SiblingName(call'[p])))]_vars

=============================================================================
